---- MODULE Spec2Model ----
(***************************************************************************)
(* ScanStrategy::scan of askalono (src/src/strategy.rs).                   *)
(*                                                                         *)
(* A ScanStrategy holds a reference to a Store and four scalar settings.   *)
(* scan(text) asks the Store for the best match of the whole text, applies *)
(* the two thresholds and, when optimize is set, repeatedly narrows the    *)
(* text to the best matching line range, records it, whites it out and     *)
(* asks the Store again.                                                   *)
(*                                                                         *)
(* Scores are f32 values in [0.0, 1.0]; the model keeps them on the grid   *)
(* k / ScoreMax, k \in 0..ScoreMax, so ScoreMax stands for 1.0.  Only the  *)
(* comparisons < and > of the source are applied to them.                  *)
(*                                                                         *)
(* Store::analyze, TextData::optimize_bounds, TextData::lines_view and     *)
(* TextData::white_out live in other files of the crate.  They are pure    *)
(* functions of their arguments; the model fixes their values the first    *)
(* time an argument is used (variables store and bounds) and returns the   *)
(* same value for the same argument ever after.                            *)
(***************************************************************************)
EXTENDS Integers, Sequences, FiniteSets, TLC

\* Bounds of the model: the score grid and the longest document, in lines.
ScoreMax == 2
MaxLines == 2

Calls == {1, 2}
Scores == 0..ScoreMax
Documents == 1..MaxLines

\* The values max_passes is set to (a u16 in the source).
PassSettings == {0, 1, 2}

\* The licenses of the Store: a name and a LicenseType each.
Registry ==
    { [name |-> "license-1", kind |-> "Text"],
      [name |-> "license-2", kind |-> "Header"] }

VARIABLES
    confidence_threshold,  \* ScanStrategy.confidence_threshold
    shallow_limit,         \* ScanStrategy.shallow_limit
    optimize,              \* ScanStrategy.optimize
    max_passes,            \* ScanStrategy.max_passes
    docs,                  \* the documents the callers hold
    store,                 \* Store::analyze, as far as it has been asked
    bounds,                \* TextData::optimize_bounds, as far as it has been asked
    pc,                    \* per call: position inside scan
    text,                  \* per call: the argument of scan
    analysis,              \* per call: let mut analysis
    score,                 \* per call: let score
    license,               \* per call: let mut license
    containing,            \* per call: let mut containing
    current_text,          \* per call: let mut current_text
    n,                     \* per call: the loop variable _n
    optimized,             \* per call: (optimized, optimized_score)
    result,                \* per call: what scan returned
    queries,               \* per call: number of Store::analyze calls made
    narrowings,            \* per call: number of optimize_bounds calls made
    whiteouts,             \* per call: number of white_out calls made
    failures,              \* per call: number of Store::analyze calls that failed
    early                  \* per call: scan left through the early return

config == <<confidence_threshold, shallow_limit, optimize, max_passes>>
extern == <<docs, store, bounds>>
locals == <<text, analysis, score, license, containing, current_text, n, optimized>>
counts == <<queries, narrowings, whiteouts, failures>>
vars == <<config, extern, pc, locals, result, counts, early>>

----------------------------------------------------------------------------
\* Values

\* Option<IdentifiedLicense>
NoLicense == [present |-> FALSE, name |-> "", kind |-> ""]
SomeLicense(name, kind) == [present |-> TRUE, name |-> name, kind |-> kind]

\* A TextData: the document (named by its number of lines), the lines that
\* were whited out, and the lines the value views.
NoText == [doc |-> 0, blank |-> {}, view |-> <<0, 0>>]
WholeText(d) == [doc |-> d, blank |-> {}, view |-> <<0, d>>]

\* Result<Analysis, Error> of Store::analyze
NoAnalysis == [ok |-> FALSE, score |-> 0, name |-> "", kind |-> ""]
Analyses == { [ok |-> TRUE, score |-> s, name |-> l.name, kind |-> l.kind] :
                s \in Scores, l \in Registry }
Answers == Analyses \cup {NoAnalysis}

\* (TextData, f32) of TextData::optimize_bounds
NoOptimized == [view |-> <<0, 0>>, score |-> 0]

\* Result<ScanResult, Error> of scan; status "none" before scan returned
NoResult == [status |-> "none", score |-> 0, license |-> NoLicense, containing |-> <<>>]

----------------------------------------------------------------------------
\* TextData and Store, by their contracts

\* The line ranges optimize_bounds may narrow t to: the contiguous, non-empty
\* ranges of lines inside the view of t.
SubViews(t) ==
    { <<s, e>> : s \in t.view[1]..t.view[2], e \in t.view[1]..t.view[2] }
        \cap { v \in (0..MaxLines) \X (0..MaxLines) : v[1] < v[2] }

\* What optimize_bounds may return for t: a view of t and its score.
Narrowings(t) == { [view |-> v, score |-> s] : v \in SubViews(t), s \in Scores }

\* TextData::lines_view
lines_view(o) == o.view

\* TextData::white_out: the whole document again, the viewed lines blanked.
white_out(t) ==
    [doc |-> t.doc,
     blank |-> t.blank \cup (t.view[1]..(t.view[2] - 1)),
     view |-> <<0, t.doc>>]

\* A pure function asked at key answers val: the value fixed earlier, if any.
Admits(f, key, val) == key \in DOMAIN f => f[key] = val
Remember(f, key, val) == IF key \in DOMAIN f THEN f ELSE f @@ (key :> val)

\* The argument optimize_bounds is a function of: the text and analysis.data,
\* the TextData of the matched license.
BoundsKey(t, a) == [text |-> t, name |-> a.name, kind |-> a.kind]

----------------------------------------------------------------------------
\* ScanStrategy::scan, the pieces

\* Variant of MeetsConfidence: the test written with >= instead of >.
MeetsConfidenceOrEqual(a) == a.score >= confidence_threshold

\* if analysis.score > self.confidence_threshold
MeetsConfidence(a) == a.score > confidence_threshold

\* Variant of AboveShallow: the comparison turned around.
AboveShallowFlipped(a) == a.score < shallow_limit

\* Variant of AboveShallow: a score equal to the limit also leaves early.
AboveShallowOrEqual(a) == a.score >= shallow_limit

\* if analysis.score > self.shallow_limit
AboveShallow(a) == a.score > shallow_limit

\* Variant of OptimizeEnabled: the flag is not consulted.
OptimizeAlways == TRUE

\* if self.optimize
OptimizeEnabled == optimize

\* Variant of PassesLeft: the inclusive range 0..=max_passes.
PassesLeftInclusive(k) == k <= max_passes

\* for _n in 0..self.max_passes
PassesLeft(k) == k < max_passes

\* Variant of BelowConfidence: the break tests the other threshold.
BelowShallow(s) == s < shallow_limit

\* if optimized_score < self.confidence_threshold { break; }
BelowConfidence(s) == s < confidence_threshold

\* license = Some(IdentifiedLicense { name, kind })
OverallLicense(a) ==
    IF MeetsConfidence(a) THEN SomeLicense(a.name, a.kind) ELSE NoLicense

\* Variant of ContainedOf: the license is derived anew for the narrowed view
\* (here: some license of the Store) instead of taken from the Analysis.
ContainedOfRederived(o, a) ==
    LET l == CHOOSE l \in Registry : TRUE
    IN  [score |-> o.score,
         license |-> [name |-> l.name, kind |-> l.kind],
         line_range |-> lines_view(o)]

\* Variant of ContainedOf: the end of the range taken as inclusive.
ContainedOfInclusive(o, a) ==
    [score |-> o.score,
     license |-> [name |-> a.name, kind |-> a.kind],
     line_range |-> <<lines_view(o)[1], lines_view(o)[2] + 1>>]

\* ContainedResult { score: optimized_score, license, line_range }
ContainedOf(o, a) ==
    [score |-> o.score,
     license |-> [name |-> a.name, kind |-> a.kind],
     line_range |-> lines_view(o)]

\* Variant of Push: one Vec kept in the strategy and shared by all calls.
PushShared(cont, c, item) == [d \in Calls |-> Append(cont[d], item)]

\* Variant of Push: a region equal to one already recorded is dropped.
PushUnique(cont, c, item) ==
    IF \E i \in 1..Len(cont[c]) : cont[c][i] = item
      THEN cont
      ELSE [cont EXCEPT ![c] = Append(@, item)]

\* containing.push(..) of call c
Push(cont, c, item) == [cont EXCEPT ![c] = Append(@, item)]

\* Variant of ScanOk: the score follows the last region that was recorded.
ScanOkLastScore(sc, lic, cont) ==
    [status |-> "ok",
     score |-> IF cont = <<>> THEN sc ELSE cont[Len(cont)].score,
     license |-> lic,
     containing |-> cont]

\* Ok(ScanResult { score, license, containing })
ScanOk(sc, lic, cont) ==
    [status |-> "ok", score |-> sc, license |-> lic, containing |-> cont]

\* Variant of QueryError: the error is swallowed, what was found is returned.
QueryErrorSwallowed(sc, lic, cont) == ScanOk(sc, lic, cont)

\* the ? of self.store.analyze(..)?: the error leaves scan at once
QueryError(sc, lic, cont) ==
    [status |-> "err", score |-> 0, license |-> NoLicense, containing |-> <<>>]

\* scan returns r: its locals are dropped, the argument stays with the caller
Return(c, r) ==
    /\ result' = [result EXCEPT ![c] = r]
    /\ pc' = [pc EXCEPT ![c] = "done"]
    /\ analysis' = [analysis EXCEPT ![c] = NoAnalysis]
    /\ score' = [score EXCEPT ![c] = 0]
    /\ license' = [license EXCEPT ![c] = NoLicense]
    /\ containing' = [containing EXCEPT ![c] = <<>>]
    /\ current_text' = [current_text EXCEPT ![c] = NoText]
    /\ n' = [n EXCEPT ![c] = 0]
    /\ optimized' = [optimized EXCEPT ![c] = NoOptimized]

----------------------------------------------------------------------------
\* State after ScanStrategy::new(&store) and the chained setters

Idle ==
    /\ store = <<>>
    /\ bounds = <<>>
    /\ text = [c \in Calls |-> NoText]
    /\ analysis = [c \in Calls |-> NoAnalysis]
    /\ score = [c \in Calls |-> 0]
    /\ license = [c \in Calls |-> NoLicense]
    /\ containing = [c \in Calls |-> <<>>]
    /\ current_text = [c \in Calls |-> NoText]
    /\ n = [c \in Calls |-> 0]
    /\ optimized = [c \in Calls |-> NoOptimized]
    /\ result = [c \in Calls |-> NoResult]
    /\ queries = [c \in Calls |-> 0]
    /\ narrowings = [c \in Calls |-> 0]
    /\ whiteouts = [c \in Calls |-> 0]
    /\ failures = [c \in Calls |-> 0]
    /\ early = [c \in Calls |-> FALSE]

\* One caller: call 1 is made, call 2 never is.
Init ==
    /\ confidence_threshold \in Scores
    /\ shallow_limit \in Scores
    /\ optimize \in BOOLEAN
    /\ max_passes \in PassSettings
    /\ docs = Documents
    /\ pc = [c \in Calls |-> IF c = 1 THEN "idle" ELSE "off"]
    /\ Idle

----------------------------------------------------------------------------
\* scan, step by step

\* let mut analysis = self.store.analyze(text)?; let score; license; containing
Analyze(c) ==
    /\ pc[c] = "idle"
    /\ \E d \in docs, a \in Answers :
        /\ Admits(store, WholeText(d), a)
        /\ store' = Remember(store, WholeText(d), a)
        /\ text' = [text EXCEPT ![c] = WholeText(d)]
        /\ queries' = [queries EXCEPT ![c] = @ + 1]
        /\ IF a.ok
             THEN /\ analysis' = [analysis EXCEPT ![c] = a]
                  /\ score' = [score EXCEPT ![c] = a.score]
                  /\ license' = [license EXCEPT ![c] = NoLicense]
                  /\ containing' = [containing EXCEPT ![c] = <<>>]
                  /\ pc' = [pc EXCEPT ![c] = "check"]
                  /\ UNCHANGED <<current_text, n, optimized, result, failures>>
             ELSE /\ failures' = [failures EXCEPT ![c] = @ + 1]
                  /\ Return(c, QueryError(score[c], license[c], containing[c]))
    /\ UNCHANGED <<config, docs, bounds, narrowings, whiteouts, early>>

\* the two threshold tests, the early return, and if self.optimize
CheckThresholds(c) ==
    /\ pc[c] = "check"
    /\ LET a == analysis[c]
           lic == OverallLicense(a)
       IN  IF MeetsConfidence(a) /\ AboveShallow(a)
             THEN Return(c, ScanOk(score[c], lic, containing[c]))
             ELSE IF OptimizeEnabled
               THEN /\ license' = [license EXCEPT ![c] = lic]
                    /\ current_text' = [current_text EXCEPT ![c] = text[c]]
                    /\ n' = [n EXCEPT ![c] = 0]
                    /\ pc' = [pc EXCEPT ![c] = "loop"]
                    /\ UNCHANGED <<analysis, score, containing, optimized, result>>
               ELSE Return(c, ScanOk(score[c], lic, containing[c]))
    /\ early' = [early EXCEPT ![c] = MeetsConfidence(analysis[c]) /\ AboveShallow(analysis[c])]
    /\ UNCHANGED <<config, extern, text, counts>>

\* one pass up to the push: optimize_bounds, the break, containing.push
Narrow(c) ==
    /\ pc[c] = "loop"
    /\ PassesLeft(n[c])
    /\ \E o \in Narrowings(current_text[c]) :
        LET key == BoundsKey(current_text[c], analysis[c])
        IN  /\ Admits(bounds, key, o)
            /\ bounds' = Remember(bounds, key, o)
            /\ narrowings' = [narrowings EXCEPT ![c] = @ + 1]
            /\ IF BelowConfidence(o.score)
                 THEN Return(c, ScanOk(score[c], license[c], containing[c]))
                 ELSE /\ containing' = Push(containing, c, ContainedOf(o, analysis[c]))
                      /\ optimized' = [optimized EXCEPT ![c] = o]
                      /\ pc' = [pc EXCEPT ![c] = "mask"]
                      /\ UNCHANGED <<analysis, score, license, current_text, n, result>>
    /\ UNCHANGED <<config, docs, store, text, queries, whiteouts, failures, early>>

\* the rest of the pass: white_out and the next analyze
Mask(c) ==
    /\ pc[c] = "mask"
    /\ LET masked == white_out([current_text[c] EXCEPT !.view = optimized[c].view])
       IN  \E a \in Answers :
            /\ Admits(store, masked, a)
            /\ store' = Remember(store, masked, a)
            /\ whiteouts' = [whiteouts EXCEPT ![c] = @ + 1]
            /\ queries' = [queries EXCEPT ![c] = @ + 1]
            /\ IF a.ok
                 THEN /\ current_text' = [current_text EXCEPT ![c] = masked]
                      /\ analysis' = [analysis EXCEPT ![c] = a]
                      /\ n' = [n EXCEPT ![c] = @ + 1]
                      /\ optimized' = [optimized EXCEPT ![c] = NoOptimized]
                      /\ pc' = [pc EXCEPT ![c] = "loop"]
                      /\ UNCHANGED <<score, license, containing, result, failures>>
                 ELSE /\ failures' = [failures EXCEPT ![c] = @ + 1]
                      /\ Return(c, QueryError(score[c], license[c], containing[c]))
    /\ UNCHANGED <<config, docs, bounds, text, narrowings, early>>

\* the range 0..max_passes is used up: Ok(ScanResult { .. }) after the loop
Exhausted(c) ==
    /\ pc[c] = "loop"
    /\ ~PassesLeft(n[c])
    /\ Return(c, ScanOk(score[c], license[c], containing[c]))
    /\ UNCHANGED <<config, extern, text, counts, early>>

Next ==
    \/ \E c \in Calls : Analyze(c)
    \/ \E c \in Calls : CheckThresholds(c)
    \/ \E c \in Calls : Narrow(c)
    \/ \E c \in Calls : Mask(c)
    \/ \E c \in Calls : Exhausted(c)

Spec == Init /\ [][Next]_vars

\* scan is straight-line code run by its caller's thread: a call that can
\* take a step takes it.
SpecLive == Spec /\ WF_vars(Next)

\* Two callers share the strategy and the Store: both calls are made, in any
\* interleaving, on one document or on two different ones (then with
\* max_passes = 0, which keeps the number of states small).
InitShared ==
    /\ confidence_threshold \in Scores
    /\ shallow_limit \in Scores
    /\ optimize \in BOOLEAN
    /\ docs \in { S \in SUBSET Documents : Cardinality(S) \in {1, 2} }
    /\ max_passes \in (IF Cardinality(docs) = 1 THEN {0, 1} ELSE {0})
    /\ pc = [c \in Calls |-> "idle"]
    /\ Idle

SpecShared == InitShared /\ [][Next]_vars

----------------------------------------------------------------------------
\* scan as one function of its argument: what a call returns when nothing
\* else runs, read from the values of the Store and of optimize_bounds that
\* are fixed so far (NoResult where one of them is not fixed yet).

RECURSIVE AlonePasses(_, _, _, _, _, _)
AlonePasses(cur, a, sc, lic, cont, k) ==
    IF ~PassesLeft(k) THEN ScanOk(sc, lic, cont)
    ELSE IF BoundsKey(cur, a) \notin DOMAIN bounds THEN NoResult
    ELSE LET o == bounds[BoundsKey(cur, a)]
             masked == white_out([cur EXCEPT !.view = o.view])
             pushed == Append(cont, ContainedOf(o, a))
         IN  IF BelowConfidence(o.score) THEN ScanOk(sc, lic, cont)
             ELSE IF masked \notin DOMAIN store THEN NoResult
             ELSE IF ~store[masked].ok THEN QueryError(sc, lic, pushed)
             ELSE AlonePasses(masked, store[masked], sc, lic, pushed, k + 1)

ScanAlone(t) ==
    IF t \notin DOMAIN store THEN NoResult
    ELSE LET a == store[t]
             lic == OverallLicense(a)
         IN  IF ~a.ok THEN QueryError(0, NoLicense, <<>>)
             ELSE IF MeetsConfidence(a) /\ AboveShallow(a) THEN ScanOk(a.score, lic, <<>>)
             ELSE IF OptimizeEnabled THEN AlonePasses(t, a, a.score, lic, <<>>, 0)
             ELSE ScanOk(a.score, lic, <<>>)

----------------------------------------------------------------------------
\* Vocabulary of the properties

Started(c) == pc[c] \notin {"off", "idle"}
Succeeded(c) == result[c].status = "ok"

\* The Analysis of the first Store query of call c, on the whole document.
First(c) == store[text[c]]

\* The ContainedResults call c holds: those pushed so far and those returned.
Held(c) ==
    { containing[c][i] : i \in 1..Len(containing[c]) }
        \cup { result[c].containing[i] : i \in 1..Len(result[c].containing) }

\* The optimize loop of call c has not run: one query, no narrowing, no mask.
LoopNeverRan(c) ==
    /\ queries[c] = 1
    /\ narrowings[c] = 0
    /\ whiteouts[c] = 0
    /\ containing[c] = <<>>
    /\ result[c].containing = <<>>

----------------------------------------------------------------------------
\* Properties

C3_NoOptimizeNoLoop ==
    ~optimize =>
        \A c \in Calls :
            /\ Started(c) => LoopNeverRan(c)
            /\ Succeeded(c) => result[c].containing = <<>>

\* C3 happens: optimize is false, passes are allowed, the score was not
\* above confidence_threshold (no fast exit), and the scan has returned.
C3_Witness ==
    \E c \in Calls :
        /\ ~optimize
        /\ max_passes > 0
        /\ Succeeded(c)
        /\ ~result[c].license.present

\* C4: at every point of a scan and in every result, containing has at most
\* max_passes entries.
C4_ContainingAtMostMaxPasses ==
    \A c \in Calls :
        /\ Len(containing[c]) <= max_passes
        /\ Len(result[c].containing) <= max_passes

\* C4 happens: every allowed pass found a region, so the result holds
\* exactly max_passes = 2 regions.
C4_Witness ==
    \E c \in Calls :
        /\ Succeeded(c)
        /\ max_passes = 2
        /\ Len(result[c].containing) = max_passes

\* C5 as stated: every ContainedResult has a score strictly greater than
\* confidence_threshold.
C5_ContainedAboveConfidence ==
    \A c \in Calls : \A r \in Held(c) : r.score > confidence_threshold

\* C5 amended: every ContainedResult has a score that is not below
\* confidence_threshold (greater than or equal to it).
C5_ContainedNotBelowConfidence ==
    \A c \in Calls : \A r \in Held(c) : ~(r.score < confidence_threshold)

\* C5 happens: with a threshold above zero, a result holds a region whose
\* score equals the threshold and a region whose score exceeds it.
C5_Witness ==
    \E c \in Calls :
        /\ Succeeded(c)
        /\ confidence_threshold > 0
        /\ \E i, j \in 1..Len(result[c].containing) :
            /\ result[c].containing[i].score = confidence_threshold
            /\ result[c].containing[j].score > confidence_threshold

\* C6: when a Store query of a scan fails, the first one or a later one,
\* the scan is over at once and returns a failure that carries no score, no
\* license and no region; there is no retry, and no scan that had a failing
\* query returns a ScanResult.
C6_QueryFailureIsReturned ==
    \A c \in Calls :
        /\ failures[c] <= 1
        /\ failures[c] > 0 =>
            /\ pc[c] = "done"
            /\ result[c] = [status |-> "err", score |-> 0,
                            license |-> NoLicense, containing |-> <<>>]
        /\ result[c].status = "err" => failures[c] = 1
        /\ Succeeded(c) => failures[c] = 0

\* C6 happens: the query on a masked text failed after a region had been
\* recorded, and the scan returned the failure.
C6_Witness ==
    \E c \in Calls :
        /\ failures[c] = 1
        /\ queries[c] >= 2
        /\ narrowings[c] >= 1
        /\ whiteouts[c] >= 1
        /\ result[c].status = "err"

C8_SameDocumentSameResult ==
    \A c1, c2 \in Calls :
        (pc[c1] = "done" /\ pc[c2] = "done" /\ text[c1] = text[c2])
            => result[c1] = result[c2]

\* C8 happens: both scans of one document have returned a ScanResult with a
\* license and a region.
C8_Witness ==
    /\ \A c \in Calls : Succeeded(c) /\ Len(result[c].containing) = 1
                                     /\ result[c].license.present
    /\ text[1] = text[2]

\* C9, working state: a step leaves the locals and the result of every call
\* that does not take it as they were.
OthersUntouched ==
    \A c \in Calls :
        pc'[c] = pc[c] =>
            /\ text'[c] = text[c]
            /\ analysis'[c] = analysis[c]
            /\ score'[c] = score[c]
            /\ license'[c] = license[c]
            /\ containing'[c] = containing[c]
            /\ current_text'[c] = current_text[c]
            /\ n'[c] = n[c]
            /\ optimized'[c] = optimized[c]
            /\ result'[c] = result[c]

\* C9, Store and documents: no step changes the documents, the argument of
\* a running call, or a value of the Store or of optimize_bounds.
SharedUnchanged ==
    /\ docs' = docs
    /\ config' = config
    /\ \A c \in Calls : Started(c) => text'[c] = text[c]
    /\ \A t \in DOMAIN store : t \in DOMAIN store' /\ store'[t] = store[t]
    /\ \A k \in DOMAIN bounds : k \in DOMAIN bounds' /\ bounds'[k] = bounds[k]

\* C9, result: a call that has returned returned what it returns when run
\* alone.
ReturnsAsAlone ==
    \A c \in Calls : pc[c] = "done" => result[c] = ScanAlone(text[c])

\* C9: interleaved scans on one strategy and one Store are independent:
\* private working state, Store and documents unchanged, and each call
\* returns what it would return if run alone.
C9_ConcurrentScansIndependent ==
    /\ [][OthersUntouched /\ SharedUnchanged]_vars
    /\ []ReturnsAsAlone

\* C9 happens: two calls on different documents are both inside scan.
C9_WitnessTwoDocuments ==
    /\ pc[1] = "check" /\ pc[2] = "check"
    /\ text[1] # text[2]

\* C9 happens: two calls on one document are both inside the loop, one a
\* step ahead of the other, each with its own region recorded or not.
C9_Witness ==
    /\ pc[1] = "mask" /\ pc[2] = "loop"
    /\ text[1] = text[2]
    /\ containing[1] # <<>> /\ containing[2] = <<>>

\* C10: with confidence_threshold = 1.0 a scan reports an overall license
\* exactly when the overall score is 1.0.
C10_ExactMatchReported ==
    \A c \in Calls :
        (Succeeded(c) /\ confidence_threshold = ScoreMax)
            => (result[c].license.present <=> result[c].score = ScoreMax)

\* C11: with shallow_limit = 0.0, every scan that reports an overall license
\* returns at once: the result has the license of the first Analysis and an
\* empty containing, and no narrowing pass ran, optimize set or not.
C11_ZeroShallowLimitFastReturns ==
    shallow_limit = 0 =>
        \A c \in Calls :
            /\ (Started(c) /\ First(c).ok /\ First(c).score > confidence_threshold)
                  => LoopNeverRan(c)
            /\ (Succeeded(c) /\ result[c].license.present) =>
                  /\ result[c].license.name = First(c).name
                  /\ result[c].license.kind = First(c).kind
                  /\ result[c].containing = <<>>
                  /\ narrowings[c] = 0

\* C11 happens: shallow_limit is 0.0, optimize is set with passes allowed,
\* and a scan has returned an overall license.
C11_Witness ==
    \E c \in Calls :
        /\ shallow_limit = 0
        /\ optimize
        /\ max_passes > 0
        /\ Succeeded(c)
        /\ result[c].license.present

\* C12 as stated: with shallow_limit < confidence_threshold no scan returns
\* through the early return, and scan returns an ordinary result.
C12_MisuseNeverFastExits ==
    shallow_limit < confidence_threshold =>
        \A c \in Calls :
            /\ ~early[c]
            /\ (pc[c] = "done" /\ failures[c] = 0) => Succeeded(c)

\* C12 amended: with shallow_limit < confidence_threshold a scan returns
\* through the early return exactly when it reports an overall license
\* (score strictly above confidence_threshold); scan returns an ordinary
\* result unless a Store query failed.
C12_MisuseFastExitsOnEveryLicense ==
    shallow_limit < confidence_threshold =>
        \A c \in Calls :
            /\ early[c] <=> (Succeeded(c) /\ result[c].license.present)
            /\ early[c] => LoopNeverRan(c)
            /\ (pc[c] = "done" /\ failures[c] = 0) => Succeeded(c)
            /\ result[c].status = "err" => failures[c] > 0

\* C12 happens: shallow_limit lies below confidence_threshold, one scan has
\* left through the early return; optimize is set and passes are allowed.
C12_Witness ==
    \E c \in Calls :
        /\ shallow_limit < confidence_threshold
        /\ optimize
        /\ max_passes > 0
        /\ early[c]
        /\ Succeeded(c)

\* The lines of the ranges of the first k entries of cont.
Blanked(cont, k) ==
    UNION { cont[i].line_range[1]..(cont[i].line_range[2] - 1) : i \in 1..k }

\* The text pass i of a scan of t0 worked on, given the regions cont it
\* recorded: t0 with the ranges of the i - 1 regions before it whited out.
TextOfPass(t0, cont, i) ==
    [doc |-> t0.doc, blank |-> Blanked(cont, i - 1), view |-> <<0, t0.doc>>]

\* The regions of call c in order: those pushed so far, or those returned.
Regions(c) == IF pc[c] = "done" THEN result[c].containing ELSE containing[c]

\* C13: the ContainedResult recorded in pass i carries the name and kind of
\* the Analysis that drove the pass: the Store's answer for the text the
\* pass narrowed (the whole document in pass 1, the masked text after).
C13_RegionNamedByDrivingAnalysis ==
    \A c \in Calls : \A i \in 1..Len(Regions(c)) :
        LET t == TextOfPass(text[c], Regions(c), i)
        IN  /\ t \in DOMAIN store
            /\ store[t].ok
            /\ Regions(c)[i].license.name = store[t].name
            /\ Regions(c)[i].license.kind = store[t].kind

\* C13 happens: a result holds two regions with different licenses, and the
\* query made after the second region was recorded names the license of
\* the first again, not the one the second region carries.
C13_Witness ==
    \E c \in Calls :
        /\ Succeeded(c)
        /\ Len(result[c].containing) = 2
        /\ result[c].containing[1].license.name # result[c].containing[2].license.name
        /\ LET t == TextOfPass(text[c], result[c].containing, 3)
           IN  /\ t \in DOMAIN store
               /\ store[t].ok
               /\ store[t].name # result[c].containing[2].license.name

\* C14 amended: masking is cumulative. At the start of pass k the working
\* text is the original document with exactly the line ranges of the k - 1
\* regions recorded so far blanked, every other line preserved; between the
\* push and the white_out of a pass the last region is not blanked yet.
C14_MaskingIsCumulative ==
    \A c \in Calls :
        /\ pc[c] = "loop" =>
            /\ Len(containing[c]) = n[c]
            /\ current_text[c] = TextOfPass(text[c], containing[c], n[c] + 1)
        /\ pc[c] = "mask" =>
            /\ Len(containing[c]) = n[c] + 1
            /\ current_text[c] = TextOfPass(text[c], containing[c], n[c] + 1)

\* Two line ranges share no line.
Disjoint(r1, r2) == r1[2] <= r2[1] \/ r2[2] <= r1[1]

\* C14 as stated: masking is cumulative, and the line ranges recorded in
\* one scan are pairwise disjoint.
C14_MaskingPreventsRematch ==
    /\ C14_MaskingIsCumulative
    /\ \A c \in Calls : \A i, j \in 1..Len(Regions(c)) :
        i # j => Disjoint(Regions(c)[i].line_range, Regions(c)[j].line_range)

\* C14 happens: after two passes the working text has the lines of both
\* recorded regions blanked, the second pass having added lines of its own.
C14_Witness ==
    \E c \in Calls :
        /\ pc[c] = "loop"
        /\ n[c] = 2
        /\ containing[c][1].line_range # containing[c][2].line_range
        /\ Disjoint(containing[c][1].line_range, containing[c][2].line_range)
        /\ current_text[c].blank = Blanked(containing[c], 2)
        /\ current_text[c].blank # Blanked(containing[c], 1)

\* The step is a pass of call c: optimize_bounds is called.
PassOf(c) == pc[c] = "loop" /\ narrowings'[c] = narrowings[c] + 1

\* The optimized score of the pass call c takes in this step.
PassScore(c) == bounds'[BoundsKey(current_text[c], analysis[c])].score

\* C15, the pass: a pass whose optimized score is below confidence_threshold
\* records nothing, makes no white_out and no query and returns a
\* ScanResult with the regions of the passes before it; any other pass
\* records one region and goes on.
BreakStopsLoop ==
    \A c \in Calls :
        PassOf(c) =>
            IF PassScore(c) < confidence_threshold
              THEN /\ pc'[c] = "done"
                   /\ result'[c] = [status |-> "ok", score |-> score[c],
                                    license |-> license[c],
                                    containing |-> containing[c]]
                   /\ whiteouts'[c] = whiteouts[c]
                   /\ queries'[c] = queries[c]
              ELSE /\ pc'[c] = "mask"
                   /\ Len(containing'[c]) = Len(containing[c]) + 1

\* C15, afterwards: a scan that has returned does nothing more.
ReturnedStaysReturned ==
    \A c \in Calls :
        pc[c] = "done" =>
            /\ pc'[c] = "done"
            /\ result'[c] = result[c]
            /\ queries'[c] = queries[c]
            /\ narrowings'[c] = narrowings[c]
            /\ whiteouts'[c] = whiteouts[c]

\* C15: the loop stops at the first pass whose optimized score is below
\* confidence_threshold; that pass records nothing, no later pass runs and
\* the scan returns a normal result with the regions found before.
C15_LoopStopsBelowConfidence == [][BreakStopsLoop /\ ReturnedStaysReturned]_vars

\* C15 happens: with two passes allowed, pass 1 recorded a region, pass 2
\* scored below the threshold, and the scan returned that one region.
C15_Witness ==
    \E c \in Calls :
        /\ Succeeded(c)
        /\ max_passes = 2
        /\ narrowings[c] = 2
        /\ Len(result[c].containing) = 1
        /\ queries[c] = 2
        /\ whiteouts[c] = 1

\* The overall license step 2 decides for a first Analysis a.
DecidedLicense(a) ==
    IF a.score > confidence_threshold
      THEN [present |-> TRUE, name |-> a.name, kind |-> a.kind]
      ELSE [present |-> FALSE, name |-> "", kind |-> ""]

\* C16: from the first query to the return, the score of a scan is the
\* score of the first Store query, and from step 2 on the license is the
\* one decided then; passes and later queries change neither.
C16_ScoreAndLicenseFixed ==
    \A c \in Calls :
        /\ pc[c] \in {"check", "loop", "mask"} => score[c] = First(c).score
        /\ pc[c] \in {"loop", "mask"} => license[c] = DecidedLicense(First(c))
        /\ Succeeded(c) =>
            /\ result[c].score = First(c).score
            /\ result[c].license = DecidedLicense(First(c))

\* C16 happens: a result with a license holds a region whose score differs
\* from the overall score, and the query on the masked text gave yet
\* another Analysis.
C16_Witness ==
    \E c \in Calls :
        /\ Succeeded(c)
        /\ result[c].license.present
        /\ Len(result[c].containing) >= 1
        /\ result[c].containing[1].score # result[c].score
        /\ LET t == TextOfPass(text[c], result[c].containing, 2)
           IN  /\ t \in DOMAIN store
               /\ store[t].ok
               /\ store[t].score # result[c].score
               /\ store[t].name # result[c].license.name

\* Every call that was made has returned.
AllReturned == \A c \in Calls : pc[c] \in {"off", "done"}

\* C17: at most max_passes passes are made, none with max_passes = 0; a
\* scan none of whose queries failed ends with a ScanResult.
PassesBounded ==
    \A c \in Calls :
        /\ n[c] <= max_passes
        /\ narrowings[c] <= max_passes
        /\ max_passes = 0 => narrowings[c] = 0
        /\ (pc[c] = "done" /\ failures[c] = 0) => Succeeded(c)

\* C17: every scan call terminates, after at most max_passes passes.
C17_ScanTerminates == []PassesBounded /\ <>AllReturned

\* C17 happens: both allowed passes found a region exactly at the threshold,
\* the scan made its three queries and returned a ScanResult.
C17_Witness ==
    \E c \in Calls :
        /\ Succeeded(c)
        /\ max_passes = 2
        /\ narrowings[c] = 2
        /\ queries[c] = 3
        /\ \A i \in 1..2 : result[c].containing[i].score = confidence_threshold

\* The first query of call c scored above both thresholds.
AboveBoth(c) ==
    /\ First(c).score > confidence_threshold
    /\ First(c).score > shallow_limit

\* C18, the step after the threshold checks: the loop is entered exactly when
\* optimize is set and the score is not above both thresholds; nothing else
\* leads into the loop.
LoopEntry ==
    \A c \in Calls :
        /\ (pc[c] = "check" /\ pc'[c] # "check") =>
              (pc'[c] = "loop" <=> (optimize /\ ~AboveBoth(c)))
        /\ (pc'[c] \in {"loop", "mask"} /\ pc[c] \notin {"loop", "mask"}) =>
              pc[c] = "check"

\* C18, the states: a call inside the loop, or one that made a pass, had
\* optimize set and a score not above both thresholds; a successful call with
\* that configuration and a pass allowed made at least one pass.
LoopOnlyWhenEntered ==
    \A c \in Calls :
        /\ (pc[c] \in {"loop", "mask"} \/ narrowings[c] >= 1) =>
              (optimize /\ ~AboveBoth(c))
        /\ (Succeeded(c) /\ optimize /\ ~AboveBoth(c) /\ max_passes >= 1) =>
              narrowings[c] >= 1

C19_QueriesOnePlusRegions ==
    \A c \in Calls :
        Succeeded(c) =>
            /\ queries[c] = 1 + Len(result[c].containing)
            /\ whiteouts[c] = Len(result[c].containing)
            /\ queries[c] <= 1 + max_passes
            /\ narrowings[c] <= max_passes
            /\ Len(result[c].containing) <= narrowings[c]

\* C19 happens: two regions returned after three queries, two white_outs
\* and two optimize_bounds calls.
C19_Witness ==
    \E c \in Calls :
        /\ Succeeded(c)
        /\ Len(result[c].containing) = 2
        /\ queries[c] = 3
        /\ whiteouts[c] = 2
        /\ narrowings[c] = 2

====
